---- MODULE Spec2Model ----
(***************************************************************************)
(* StoryGrinder: the tool-run handler of the main process, the provider    *)
(* clients (Claude, OpenAI Responses, OpenAI Completions), the token       *)
(* budget calculation of the Claude client, and the startup, settings and  *)
(* file handlers of the main process.                                      *)
(*                                                                         *)
(* Eight specifications share the variables below:                         *)
(*   SpecBudget   calculateTokenBudgets applied to bounded inputs          *)
(*   SpecClient   the provider clients, one streamWithThinking call and    *)
(*                project switches                                         *)
(*   SpecRun      'start-tool-run' / 'stop-tool' and the tool window       *)
(*   SpecStart    'start-tool-run' and the errors its task catches         *)
(*   SpecSession  successive and overlapping runs, the file cache and      *)
(*                project switches                                         *)
(*   SpecLifecycle  one client over its life: load, release, recreate,     *)
(*                the query methods and the start of calls                 *)
(*   SpecApp      startup, the settings store, project selection, restart  *)
(*   SpecFiles    'save-file', 'select-file', 'select-directory'           *)
(***************************************************************************)
EXTENDS Integers, Sequences, FiniteSets, TLC

VARIABLES
  \* ---- token budget calculation (client-claude.js) ----
  config,          \* this.config of the Claude client
  promptTokens,    \* <<>> or <<n>>: the argument of calculateTokenBudgets
  budgets,         \* <<>> or <<record>>: the value calculateTokenBudgets returned
  \* ---- main process: tool window and tool runs ----
  toolSetupRunWindow, \* 0 (null) or the id of the open tool window
  windowsCreated,     \* number of tool windows created so far
  currentTool,        \* the tool the tool window was opened for
  runCount,           \* number of run ids handed out by 'start-tool-run'
  runTool,            \* run id -> toolName argument of its 'start-tool-run'
  runPc,              \* run id -> position of its background task
  runEmits,           \* run id -> number of outputs its tool has emitted
  emitOutput,         \* registered tool -> run id whose sendOutput the tool object holds
  delivered,          \* run id -> the events sent to a tool window under that run id
  fileCache,          \* tool name -> the files recorded for the tool
  stopResult,         \* outcome of the renderer's last stopTool(runId): <<>> or <<runId, result>>
  startReturned,      \* run id -> how its 'start-tool-run' invoke ended: "none", "runId", "threw"
  runError,           \* run id -> message of the error its background task caught, "none" if none
  errorSent,          \* run id -> the `error` field of the 'tool-error' sent under it, "none" if none
  currentProject,     \* appState.CURRENT_PROJECT, "none" when no project is selected
  \* ---- the provider client and one streamWithThinking call ----
  provider,        \* which client implementation the instance is
  envKey,          \* the provider's API key is set in process.env
  apiKeyMissing,   \* this.apiKeyMissing (undefined counts as FALSE)
  client,          \* this.client is set
  context,         \* this.manuscriptContent / this.prompt: Null or the loaded text
  prepareResult,   \* what the last prepareFileAndCache returned: "none", "ok", "errors"
  sPc,             \* position of the streamWithThinking call
  sArgs,           \* its arguments noCache, includeMetaData, options.includeThinking
  fullPrompt,      \* <<>> or <<[manuscript, prompt]>>: the prompt text it built
  request,         \* <<>> or <<record>>: the request it sent to the provider
  wire,            \* the wire events read so far
  loop,            \* isThinking, isResponding and the texts passed to onText
  loopTwin,        \* the same for the twin stream (other thinking contents)
  sError,          \* the error the call threw, "none" if none
  \* ---- the client's query methods ----
  queryResult,     \* <<>> or <<record>>: the last query or release method a caller noted, with what it returned
  \* ---- main process: startup, settings store, file dialogs ----
  appPc,             \* position of initializeApp: "launch", "paths", "ready"
  envExists,         \* ensureEssentialPathsExist: fs.existsSync(envFilePath)
  writingDirExists,  \* ensureEssentialPathsExist: fs.existsSync(writingDir)
  storeOpen,         \* appState.store is set
  store,             \* the content of the electron-store file StoryGrinder-config
  aiProvider,        \* appState.AI_PROVIDER
  language,          \* appState.LANGUAGE
  lastWritten,       \* <<>> or <<path>>: the file the last 'save-file' wrote
  selected           \* <<>> or <<path>>: what the last 'select-file'/'select-directory' returned

budgetVars == <<config, promptTokens, budgets>>

runVars == <<toolSetupRunWindow, windowsCreated, currentTool, runCount, runTool,
             runPc, runEmits, emitOutput, delivered, fileCache, stopResult,
             startReturned, runError, errorSent, currentProject>>

clientVars == <<provider, envKey, apiKeyMissing, client, context, prepareResult,
                sPc, sArgs, fullPrompt, request, wire, loop, loopTwin, sError>>

queryVars == <<queryResult>>

appVars == <<appPc, envExists, writingDirExists, storeOpen, store, aiProvider,
             language, lastWritten, selected>>

vars == <<budgetVars, runVars, clientVars, queryVars, appVars>>

----------------------------------------------------------------------------
\* Bounds

\* distance between two sampled prompt sizes
PromptGrid == 5000
\* prompt sizes are sampled up to MaxPromptSteps * PromptGrid tokens
MaxPromptSteps == 42
\* tool runs started while the tool window is opened, closed and replaced
MaxRuns == 1
\* tool runs started in one session of the tool window
MaxOverlap == 2
\* segments of the paths a file dialog or a renderer can name
MaxDepth == 2
\* tool windows created
MaxWindows == 2
\* outputs one tool execution emits
MaxEmits == 1
\* wire events read in one stream
MaxWire == 2

----------------------------------------------------------------------------
\* Helpers

Min(a, b) == IF a < b THEN a ELSE b

----------------------------------------------------------------------------
\* Configuration of the Claude client

\* the defaults of the constructor
DefaultConfig ==
  [ context_window         |-> 200000,
    thinking_budget_tokens |-> 32000,
    betas_max_tokens       |-> 128000,
    desired_output_tokens  |-> 8000,
    max_thinking_budget    |-> 20000,
    max_tokens             |-> 32000 ]

\* `...config`: the caller's overrides replace defaults.  The overrides modelled
\* are the output hard limit (below, at and above the context window), the
\* configured (preferred) thinking budget and the thinking ceiling.
Configs ==
  { [DefaultConfig EXCEPT !.betas_max_tokens = b,
                          !.thinking_budget_tokens = t,
                          !.max_thinking_budget = c] :
      b \in {32000, 128000, 250000}, t \in {20000, 32000}, c \in {20000, 32000} }

\* The token counts countTokens can return: -1 on failure, else input_tokens >= 0.
\* Sampled on a grid, plus the sizes next to every threshold of a configuration.
PromptThresholds ==
  UNION { { c.context_window,
            c.context_window - c.desired_output_tokens,
            c.context_window - c.betas_max_tokens,
            c.context_window - c.desired_output_tokens - c.max_thinking_budget,
            c.context_window - c.desired_output_tokens - c.thinking_budget_tokens,
            c.context_window - c.max_tokens } : c \in Configs }

PromptTokenValues ==
  {-1}
  \cup { k * PromptGrid : k \in 0..MaxPromptSteps }
  \cup { p \in { b + d : b \in PromptThresholds, d \in {-1, 0, 1} } : p >= 0 }

----------------------------------------------------------------------------
\* calculateTokenBudgets(promptTokens)

\* "Calculate available tokens after prompt"
AvailableTokens(pTokens, cfg) == cfg.context_window - pTokens

\* a limit that ignores what the prompt left
MaxTokens_IgnoresAvailable(pTokens, cfg) == cfg.betas_max_tokens

\* "For API call, max_tokens must respect the API limit"
MaxTokens(pTokens, cfg) ==
  LET minTokens == Min(AvailableTokens(pTokens, cfg), cfg.betas_max_tokens)
  IN  IF minTokens > cfg.context_window
      THEN AvailableTokens(pTokens, cfg)
      ELSE minTokens

\* a thinking budget that leaves no room for the visible output
UncappedThinkingBudget_NoHeadroom(pTokens, cfg) == MaxTokens(pTokens, cfg)

\* "Thinking budget must be LESS than max_tokens to leave room for visible output"
UncappedThinkingBudget(pTokens, cfg) ==
  MaxTokens(pTokens, cfg) - cfg.desired_output_tokens

\* "Cap thinking budget if it's too large"
CapThinkingBudget(pTokens, cfg) ==
  UncappedThinkingBudget(pTokens, cfg) > cfg.max_thinking_budget

ThinkingBudget(pTokens, cfg) ==
  IF CapThinkingBudget(pTokens, cfg)
  THEN cfg.max_thinking_budget
  ELSE UncappedThinkingBudget(pTokens, cfg)

\* "Check if prompt is too large for the configured thinking budget"
IsPromptTooLarge(pTokens, cfg) ==
  ThinkingBudget(pTokens, cfg) < cfg.thinking_budget_tokens

calculateTokenBudgets(pTokens, cfg) ==
  [ contextWindow            |-> cfg.context_window,
    promptTokens             |-> pTokens,
    availableTokens          |-> AvailableTokens(pTokens, cfg),
    maxTokens                |-> MaxTokens(pTokens, cfg),
    thinkingBudget           |-> ThinkingBudget(pTokens, cfg),
    desiredOutputTokens      |-> cfg.desired_output_tokens,
    betasMaxTokens           |-> cfg.betas_max_tokens,
    configuredThinkingBudget |-> cfg.thinking_budget_tokens,
    capThinkingBudget        |-> CapThinkingBudget(pTokens, cfg),
    isPromptTooLarge         |-> IsPromptTooLarge(pTokens, cfg) ]

----------------------------------------------------------------------------
\* Provider clients: client-claude.js, client-openai.js (Responses API) and
\* client_openai_completions.js

Providers == {"claude", "openai", "openai_completions"}

Null == "null"

\* what fs.readFile can give: an error, or the content of the file (empty,
\* whitespace only, or one of two manuscripts)
ReadError == "ENOENT"
FileContents == {"", " ", "M1", "M2"}

\* content.trim()
Trim(content) == IF content = " " THEN "" ELSE content

\* JavaScript truthiness of a string-or-null field
Truthy(v) == v # Null /\ v # ""

\* the messages of the errors streamWithThinking throws
KeyMissingError == "client not initialized - API key missing"
ContextNotPreparedError == "No manuscript prompt loaded. Call prepareFileAndCache() first."
TypeError == "TypeError: Cannot read properties of null"
TransportError == "provider request failed"

\* the token counts modelled for countTokens in a stream call: the failure value,
\* a small prompt, and a prompt near the context window
StreamTokenCounts == {-1, 1000, 190000}

TextDeltas == {"t1", "t2"}
ThinkingDeltas == {"k1", "k2"}

WarningText == "WARNING: Prompt is very large"
RateLimitTexts == << "=== FYI: Rate Limits ===", "anthropic-ratelimit-requests-limit: 50", "\n" >>
ThinkingHeader == "Thinking..."
RespondingHeader == "Responding..."
MetaDataText == "--- Response MetaData ---"

\* Wire events
Event(type, kind, text) == [type |-> type, kind |-> kind, text |-> text]

ClaudeEvents ==
  { Event("content_block_start", "thinking", ""),
    Event("content_block_start", "text", ""),
    Event("content_block_stop", "", ""),
    Event("message_stop", "", "") }
  \cup { Event("content_block_delta", "thinking_delta", k) : k \in ThinkingDeltas }
  \cup { Event("content_block_delta", "text_delta", t) : t \in TextDeltas }

OpenAiEvents ==
  { Event("response.created", "", ""),
    Event("response.output_text.done", "", "") }
  \cup { Event("response.output_text.delta", "", t) : t \in TextDeltas }

\* The twin stream carries the same events with the content of every thinking
\* delta replaced by one fixed text: two streams that differ only in the content
\* of their thinking deltas have the same twin.
Redacted == "k0"
TwinOf(ev) ==
  IF ev.kind = "thinking_delta" THEN [ev EXCEPT !.text = Redacted] ELSE ev

\* the event after which the provider sends nothing more
LastEvent(ev) == ev.type \in {"message_stop", "response.output_text.done"}

\* a callback that puts the newest text in front of the earlier ones
Emit_Prepend(st, texts) == [st EXCEPT !.out = texts \o @]

\* onText(text) for each text, in order
Emit(st, texts) == [st EXCEPT !.out = @ \o texts]

NewLoop == [isThinking |-> FALSE, isResponding |-> FALSE, out |-> <<>>]

\* a thinking delta forwarded whatever the caller asked for
ThinkingDeltaOutput_Always(ev, args) == <<ev.text>>

\* "Include thinking in output if requested"
ThinkingDeltaOutput(ev, args) ==
  IF args.includeThinking THEN <<ev.text>> ELSE <<>>

\* one iteration of the Claude `for await (const event of stream)` body
ClaudeOnEvent(ev, st, args) ==
  IF ev.type = "content_block_start" THEN
    IF ev.kind = "thinking" THEN
      IF ~st.isThinking
      THEN [Emit(st, <<ThinkingHeader>>) EXCEPT !.isThinking = TRUE]
      ELSE st
    ELSE IF ev.kind = "text" THEN
      IF ~st.isResponding
      THEN [Emit(st, <<RespondingHeader>>) EXCEPT !.isResponding = TRUE]
      ELSE st
    ELSE st
  ELSE IF ev.type = "content_block_delta" THEN
    IF ev.kind = "thinking_delta" THEN Emit(st, ThinkingDeltaOutput(ev, args))
    ELSE IF ev.kind = "text_delta" THEN Emit(st, <<ev.text>>)
    ELSE st
  ELSE IF ev.type = "message_stop" THEN
    IF args.includeMetaData THEN Emit(st, <<MetaDataText>>) ELSE st
  ELSE st

\* one iteration of the OpenAI `for await (const event of response)` body
OpenAiOnEvent(ev, st, args) ==
  IF ev.type = "response.output_text.delta" THEN Emit(st, <<ev.text>>)
  ELSE IF ev.type = "response.output_text.done" THEN
    IF args.includeMetaData THEN Emit(st, <<MetaDataText>>) ELSE st
  ELSE st

\* the state of a client right after `new AiApiService(config)`, with no call
\* in progress
ClientIdle ==
  /\ provider \in Providers
  /\ envKey \in BOOLEAN
  /\ apiKeyMissing = ~envKey
  /\ client = envKey
  /\ context = Null
  /\ prepareResult = "none"
  /\ sPc = "idle"
  /\ sArgs = [noCache |-> FALSE, includeMetaData |-> FALSE, includeThinking |-> FALSE]
  /\ fullPrompt = <<>>
  /\ request = <<>>
  /\ wire = <<>>
  /\ loop = NewLoop
  /\ loopTwin = NewLoop
  /\ sError = "none"

callVars == <<sPc, sArgs, fullPrompt, request, wire, loop, loopTwin, sError>>

\* no query method has been called
QueryIdle == queryResult = <<>>

\* a catch block that leaves the field as it was
ContextAfterFailedLoad_Kept == context

\* the catch block of prepareFileAndCache: this.manuscriptContent = null
\* (this.prompt = null)
ContextAfterFailedLoad == Null

\* prepareFileAndCache(manuscriptFile); `read` is what fs.readFile gave
PrepareFileAndCache(read) ==
  /\ IF read = ReadError \/ (provider = "claude" /\ Trim(read) = "")
     THEN context' = ContextAfterFailedLoad /\ prepareResult' = "errors"
     ELSE context' = read /\ prepareResult' = "ok"
  /\ UNCHANGED <<provider, envKey, apiKeyMissing, client, callVars>>
  /\ UNCHANGED <<budgetVars, runVars, queryVars, appVars>>

\* clearFilesAndCaches(): Claude drops the manuscript, OpenAI has nothing to clear
ClearEffect ==
  /\ provider \in {"claude", "openai"}
  /\ context' = IF provider = "claude" THEN Null ELSE context
  /\ UNCHANGED <<provider, envKey, apiKeyMissing, client, prepareResult, callVars>>
  /\ UNCHANGED <<budgetVars, runVars, appVars>>

ClearFilesAndCaches == ClearEffect /\ UNCHANGED queryVars

\* close() of the Claude client
CloseEffect ==
  /\ provider = "claude"
  /\ client' = FALSE
  /\ context' = Null
  /\ UNCHANGED <<provider, envKey, apiKeyMissing, prepareResult, callVars>>
  /\ UNCHANGED <<budgetVars, runVars, appVars>>

Close == CloseEffect /\ UNCHANGED queryVars

\* the methods that release what the client holds
ReleaseOps == {"clearFilesAndCaches", "close"}

\* a release method is called by a caller that notes the call
Release(op) ==
  /\ IF op = "close" THEN CloseEffect ELSE ClearEffect
  /\ queryResult' = << [op |-> op] >>

\* a recreate() that forgets that the constructor found no key
KeyMissingAfterRecreate_Reset == FALSE

\* this.apiKeyMissing after a recreate() that found the key: the branch
\* assigns this.client only
KeyMissingAfterRecreate == apiKeyMissing

\* recreate() of the Claude client
Recreate ==
  /\ provider = "claude"
  /\ context' = Null
  /\ IF ~envKey
     THEN client' = FALSE /\ apiKeyMissing' = TRUE
     ELSE client' = TRUE /\ apiKeyMissing' = KeyMissingAfterRecreate
  /\ UNCHANGED <<provider, envKey, prepareResult, callVars>>
  /\ UNCHANGED <<budgetVars, runVars, queryVars, appVars>>

\* the provider's key is added to process.env while the client exists;
\* recreate() reads process.env again
SetEnvKey ==
  /\ ~envKey
  /\ envKey' = TRUE
  /\ UNCHANGED <<provider, apiKeyMissing, client, context, prepareResult, callVars>>
  /\ UNCHANGED <<budgetVars, runVars, queryVars, appVars>>

\* the guard of the query methods: `if (this.apiKeyMissing || !this.client)`
NotConfigured == apiKeyMissing \/ ~client

\* verifyAiAPI(); `found` tells whether models.list() answered and held the model
verifyAiAPI(found) == IF NotConfigured THEN FALSE ELSE found

\* getAvailableModels(); `listed` is the list models.list() gave, <<>> when it failed
getAvailableModels(listed) == IF NotConfigured THEN <<>> ELSE listed

\* what models.list() can give
ModelLists == {<<>>, <<"model-a">>}

\* what the provider's token count, or the local encoder, can give: an error,
\* or a count
CountOutcomes == [ok : BOOLEAN, input_tokens : {0, 1000}]

\* a count that fails only when the provider does
countTokens_ProviderOnly(o) == IF o.ok THEN o.input_tokens ELSE -1

\* countTokens(text): the Claude client returns -1 without a client or a key,
\* the OpenAI clients throw inside the try when the constructor returned before
\* it made the encoder; every error is caught and gives -1
countTokens(o) ==
  IF (IF provider = "claude" THEN ~client \/ apiKeyMissing ELSE apiKeyMissing)
  THEN -1
  ELSE IF o.ok THEN o.input_tokens ELSE -1

\* a query method is called and returns
Query(result) ==
  /\ queryResult' = <<result>>
  /\ UNCHANGED clientVars
  /\ UNCHANGED <<budgetVars, runVars, appVars>>

VerifyAiAPI(found) ==
  Query([op |-> "verifyAiAPI", value |-> verifyAiAPI(found)])

\* the Completions client has no getAvailableModels
GetAvailableModels(listed) ==
  /\ provider \in {"claude", "openai"}
  /\ Query([op |-> "getAvailableModels", models |-> getAvailableModels(listed)])

CountTokens(o) ==
  Query([op |-> "countTokens", tokens |-> countTokens(o)])

Fail(message) ==
  /\ sPc' = "failed"
  /\ sError' = message

\* streamWithThinking(prompt, onText, ...): from the call to its first await
StreamCall(args) ==
  /\ sPc = "idle"
  /\ sArgs' = args
  /\ IF ~client \/ apiKeyMissing
     THEN /\ Fail(KeyMissingError)
          /\ UNCHANGED <<fullPrompt, request>>
     ELSE IF provider = "claude"
     THEN \* the prompt is built, then `await this.countTokens(fullPrompt)`
          /\ fullPrompt' =
               << [manuscript |-> IF Truthy(context) /\ ~args.noCache
                                  THEN context ELSE Null,
                   prompt |-> "P"] >>
          /\ sPc' = "counting"
          /\ UNCHANGED <<request, sError>>
     ELSE IF ~Truthy(context)
     THEN /\ Fail(ContextNotPreparedError)
          /\ UNCHANGED <<fullPrompt, request>>
     ELSE \* the request is created and awaited
          /\ fullPrompt' = << [manuscript |-> context, prompt |-> "P"] >>
          /\ request' = << [input |-> fullPrompt'[1], max_tokens |-> 0, budget_tokens |-> 0] >>
          /\ sPc' = "opening"
          /\ UNCHANGED sError
  /\ UNCHANGED <<wire, loop, loopTwin>>
  /\ UNCHANGED <<provider, envKey, apiKeyMissing, client, context, prepareResult>>
  /\ UNCHANGED <<budgetVars, runVars, queryVars, appVars>>

\* a request built from what the client holds when the request is sent
RequestInput_Reread == [manuscript |-> context, prompt |-> "P"]

\* messages: [{ role: "user", content: fullPrompt }]
RequestInput == fullPrompt[1]

\* countTokens returned n (-1 when the provider call failed): budgets, warning,
\* modelOptions, and the stream request is started
CountTokensDone(n) ==
  /\ sPc = "counting"
  /\ promptTokens' = <<n>>
  /\ budgets' = << calculateTokenBudgets(n, config) >>
  /\ LET warned == IF budgets'[1].isPromptTooLarge THEN <<WarningText>> ELSE <<>>
     IN  /\ loop' = Emit(loop, warned)
         /\ loopTwin' = Emit(loopTwin, warned)
  /\ IF ~client
     THEN \* this.client was closed while the count was awaited
          /\ Fail(TypeError)
          /\ UNCHANGED request
     ELSE /\ request' = << [input |-> RequestInput,
                            max_tokens |-> config.max_tokens,
                            budget_tokens |-> config.max_thinking_budget] >>
          /\ sPc' = "opening"
          /\ UNCHANGED sError
  /\ UNCHANGED <<config, sArgs, fullPrompt, wire>>
  /\ UNCHANGED <<provider, envKey, apiKeyMissing, client, context, prepareResult>>
  /\ UNCHANGED <<runVars, queryVars, appVars>>

\* the provider accepted the request
StreamOpened ==
  /\ sPc = "opening"
  /\ IF provider = "claude"
     THEN LET rate == IF sArgs.includeMetaData THEN RateLimitTexts ELSE <<>>
          IN  /\ loop' = Emit(loop, rate)
              /\ loopTwin' = Emit(loopTwin, rate)
              /\ sPc' = "streaming"
     ELSE IF provider = "openai"
     THEN /\ sPc' = "streaming"
          /\ UNCHANGED <<loop, loopTwin>>
     ELSE \* completions: the whole text arrives at once
          \E t \in TextDeltas \cup {""} :
            LET result == <<t>> \o (IF sArgs.includeMetaData THEN <<MetaDataText>> ELSE <<>>)
            IN  /\ loop' = Emit(loop, result)
                /\ loopTwin' = Emit(loopTwin, result)
                /\ sPc' = "done"
  /\ UNCHANGED <<sArgs, fullPrompt, request, wire, sError>>
  /\ UNCHANGED <<provider, envKey, apiKeyMissing, client, context, prepareResult>>
  /\ UNCHANGED <<budgetVars, runVars, queryVars, appVars>>

\* the provider rejected the request, or the connection failed
StreamOpenFailed ==
  /\ sPc = "opening"
  /\ Fail(TransportError)
  /\ UNCHANGED <<sArgs, fullPrompt, request, wire, loop, loopTwin>>
  /\ UNCHANGED <<provider, envKey, apiKeyMissing, client, context, prepareResult>>
  /\ UNCHANGED <<budgetVars, runVars, queryVars, appVars>>

\* the loop reads the next wire event and handles it
WireEvent(ev) ==
  /\ sPc = "streaming"
  /\ Len(wire) < MaxWire
  /\ IF wire = <<>> THEN TRUE ELSE ~LastEvent(wire[Len(wire)])
  /\ wire' = Append(wire, ev)
  /\ IF provider = "claude"
     THEN /\ ev \in ClaudeEvents
          /\ loop' = ClaudeOnEvent(ev, loop, sArgs)
          /\ loopTwin' = ClaudeOnEvent(TwinOf(ev), loopTwin, sArgs)
          /\ UNCHANGED sPc
     ELSE /\ ev \in OpenAiEvents
          /\ loop' = OpenAiOnEvent(ev, loop, sArgs)
          /\ loopTwin' = OpenAiOnEvent(TwinOf(ev), loopTwin, sArgs)
          /\ sPc' = IF ev.type = "response.output_text.done" THEN "done" ELSE sPc
  /\ UNCHANGED <<sArgs, fullPrompt, request, sError>>
  /\ UNCHANGED <<provider, envKey, apiKeyMissing, client, context, prepareResult>>
  /\ UNCHANGED <<budgetVars, runVars, queryVars, appVars>>

\* the wire stream ended
StreamEnd ==
  /\ sPc = "streaming"
  /\ sPc' = "done"
  /\ UNCHANGED <<sArgs, fullPrompt, request, wire, loop, loopTwin, sError>>
  /\ UNCHANGED <<provider, envKey, apiKeyMissing, client, context, prepareResult>>
  /\ UNCHANGED <<budgetVars, runVars, queryVars, appVars>>

\* reading the wire stream failed: catch, console.error, throw
StreamError ==
  /\ sPc = "streaming"
  /\ Fail(TransportError)
  /\ UNCHANGED <<sArgs, fullPrompt, request, wire, loop, loopTwin>>
  /\ UNCHANGED <<provider, envKey, apiKeyMissing, client, context, prepareResult>>
  /\ UNCHANGED <<budgetVars, runVars, queryVars, appVars>>

\* the caller has the outcome; the client can be called again
Return ==
  /\ sPc \in {"done", "failed"}
  /\ sPc' = "idle"
  /\ sArgs' = [noCache |-> FALSE, includeMetaData |-> FALSE, includeThinking |-> FALSE]
  /\ fullPrompt' = <<>>
  /\ request' = <<>>
  /\ wire' = <<>>
  /\ loop' = NewLoop
  /\ loopTwin' = NewLoop
  /\ sError' = "none"
  /\ promptTokens' = <<>>
  /\ budgets' = <<>>
  /\ UNCHANGED config
  /\ UNCHANGED <<provider, envKey, apiKeyMissing, client, context, prepareResult>>
  /\ UNCHANGED <<runVars, queryVars, appVars>>

\* the arguments a caller can pass; the OpenAI clients take only includeMetaData
CallArgs ==
  { a \in [noCache : BOOLEAN, includeMetaData : BOOLEAN, includeThinking : BOOLEAN] :
      provider # "claude" => (~a.noCache /\ ~a.includeThinking) }

----------------------------------------------------------------------------
\* Main process: the tool window, 'start-tool-run' and the renderer's stopTool

RunIds == 1..MaxOverlap

\* a tool of toolSystem.toolRegistry (its tool object is shared by all its runs),
\* and a name that is not registered
RegisteredTools == {"proofreader_spelling"}
ToolNames == RegisteredTools \cup {"no_such_tool"}

\* toolSystem.toolRegistry.getTool(toolName): the tool or undefined
getTool(toolName) == toolName \in RegisteredTools

\* the channels main registers with ipcMain.handle (invoke targets)
HandledChannels ==
  { "get-projects", "open-project", "create-project", "open-file-in-editor",
    "save-file", "get-tools", "get-tool-options", "get-current-tool",
    "start-tool-run", "set-tool-options", "get-current-settings",
    "getAvailableModels", "save-settings", "show-editor-dialog", "launch-editor",
    "get-project-info", "select-file", "select-directory", "convert-docx-to-txt",
    "convert-txt-to-docx", "get-tool-output-files", "get-ai-model-info" }

\* ipcRenderer.invoke(channel): handled by main, or rejected because no handler
\* is registered for the channel
invoke(channel) == IF channel \in HandledChannels THEN "handled" ELSE "rejected"

\* toolSetupRunWindow && !toolSetupRunWindow.isDestroyed()
WindowOpen == toolSetupRunWindow # 0

\* webContents.send(...) guarded by the window check: the event is appended to
\* what the renderer of window `win` received under run id `id`
SendGuarded(id, kind) ==
  IF WindowOpen
  THEN [delivered EXCEPT ![id] =
          Append(@, [kind |-> kind, win |-> toolSetupRunWindow])]
  ELSE delivered

\* the messages of the errors the background task of a run can catch: the tool
\* is not registered, the provider client refused the call, or the tool has no
\* project to write to
ToolNotFoundError == "Tool not found"
NoProjectError == "No project selected"
RejectMessages == {KeyMissingError, ContextNotPreparedError, NoProjectError}

\* a handler that lets the unknown-tool error escape to the invoke
HandlerReturn_Throws(toolName) == IF getTool(toolName) THEN "runId" ELSE "threw"

\* how the 'start-tool-run' invoke ends: the background task is started, not
\* awaited, and `return runId` follows
HandlerReturn(toolName) == "runId"

\* a 'tool-error' event that carries a fixed text
ErrorPayload_Generic(message) == "Tool run failed"

\* the `error` field of 'tool-error': error.message
ErrorPayload(message) == message

\* fileCache.clear(toolName)
fileCacheClear(toolName) == [fileCache EXCEPT ![toolName] = <<>>]

\* fileCache.addFile(toolName, path): insertion order, no duplicates
fileCacheAddFile(toolName, path) ==
  IF \E i \in 1..Len(fileCache[toolName]) : fileCache[toolName][i] = path
  THEN fileCache
  ELSE [fileCache EXCEPT ![toolName] = Append(@, path)]

RunIdle ==
  /\ toolSetupRunWindow = 0
  /\ windowsCreated = 0
  /\ currentTool = "none"
  /\ runCount = 0
  /\ runTool = [r \in RunIds |-> "none"]
  /\ runPc = [r \in RunIds |-> "unused"]
  /\ runEmits = [r \in RunIds |-> 0]
  /\ emitOutput = [t \in RegisteredTools |-> 0]
  /\ delivered = [r \in RunIds |-> <<>>]
  /\ fileCache = [t \in ToolNames |-> <<>>]
  /\ stopResult = <<>>
  /\ startReturned = [r \in RunIds |-> "none"]
  /\ runError = [r \in RunIds |-> "none"]
  /\ errorSent = [r \in RunIds |-> "none"]
  /\ currentProject = "none"

\* ipcMain.on('show-tool-setup-dialog') -> showToolSetupRunDialog(toolName)
ShowToolSetupDialog(toolName) ==
  /\ windowsCreated < MaxWindows
  /\ windowsCreated' = windowsCreated + 1
  /\ toolSetupRunWindow' = windowsCreated + 1
  /\ currentTool' = toolName
  /\ UNCHANGED <<runCount, runTool, runPc, runEmits, emitOutput, delivered,
                 fileCache, stopResult>>
  /\ UNCHANGED <<startReturned, runError, errorSent, currentProject>>
  /\ UNCHANGED <<budgetVars, clientVars, queryVars, appVars>>

\* ipcMain.on('close-tool-dialog')
CloseToolDialog ==
  /\ WindowOpen
  /\ toolSetupRunWindow' = 0
  /\ UNCHANGED <<windowsCreated, currentTool, runCount, runTool, runPc, runEmits,
                 emitOutput, delivered, fileCache, stopResult>>
  /\ UNCHANGED <<startReturned, runError, errorSent, currentProject>>
  /\ UNCHANGED <<budgetVars, clientVars, queryVars, appVars>>

\* the user closes the tool window: toolSetupRunWindow.on('closed')
WindowClosed ==
  /\ WindowOpen
  /\ toolSetupRunWindow' = 0
  /\ UNCHANGED <<windowsCreated, currentTool, runCount, runTool, runPc, runEmits,
                 emitOutput, delivered, fileCache, stopResult>>
  /\ UNCHANGED <<startReturned, runError, errorSent, currentProject>>
  /\ UNCHANGED <<budgetVars, clientVars, queryVars, appVars>>

\* ipcMain.handle('start-tool-run'): the handler and the synchronous start of its
\* background task, up to the await of executeToolById.  The invoke comes from
\* the renderer of the open tool window (electronAPI.startToolRun).
StartToolRun(toolName) ==
  /\ WindowOpen
  /\ runCount < MaxOverlap
  /\ LET runId == runCount + 1
         started == SendGuarded(runId, "started")
     IN /\ runCount' = runId
        /\ runTool' = [runTool EXCEPT ![runId] = toolName]
        /\ startReturned' = [startReturned EXCEPT ![runId] = HandlerReturn(toolName)]
        /\ IF ~getTool(toolName)
           THEN \* throw new Error(`Tool not found`) -> catch -> 'tool-error'
                /\ delivered' =
                     IF WindowOpen
                     THEN [started EXCEPT ![runId] =
                             Append(@, [kind |-> "error", win |-> toolSetupRunWindow])]
                     ELSE started
                /\ runPc' = [runPc EXCEPT ![runId] = "errored"]
                /\ runError' = [runError EXCEPT ![runId] = ToolNotFoundError]
                /\ errorSent' =
                     IF WindowOpen
                     THEN [errorSent EXCEPT ![runId] = ErrorPayload(ToolNotFoundError)]
                     ELSE errorSent
                /\ UNCHANGED <<fileCache, emitOutput>>
           ELSE /\ delivered' = started
                /\ UNCHANGED <<runError, errorSent>>
                /\ fileCache' = fileCacheClear(toolName)
                /\ emitOutput' = [emitOutput EXCEPT ![toolName] = runId]
                /\ runPc' = [runPc EXCEPT ![runId] = "executing"]
  /\ UNCHANGED <<toolSetupRunWindow, windowsCreated, currentTool, runEmits, stopResult,
                 currentProject>>
  /\ UNCHANGED <<budgetVars, clientVars, queryVars, appVars>>

\* the executing tool calls this.emitOutput(text): the sendOutput closure the
\* tool object holds sends 'tool-output' under that closure's run id
ToolEmit(r) ==
  /\ runPc[r] = "executing"
  /\ runEmits[r] < MaxEmits
  /\ runEmits' = [runEmits EXCEPT ![r] = @ + 1]
  /\ delivered' = SendGuarded(emitOutput[runTool[r]], "delta")
  /\ UNCHANGED <<toolSetupRunWindow, windowsCreated, currentTool, runCount, runTool,
                 runPc, emitOutput, fileCache, stopResult>>
  /\ UNCHANGED <<startReturned, runError, errorSent, currentProject>>
  /\ UNCHANGED <<budgetVars, clientVars, queryVars, appVars>>

\* the executing tool writes an output file and records it in the file cache
ToolAddFile(r) ==
  /\ runPc[r] = "executing"
  /\ fileCache' = fileCacheAddFile(runTool[r], r)
  /\ fileCache' # fileCache
  /\ UNCHANGED <<toolSetupRunWindow, windowsCreated, currentTool, runCount, runTool,
                 runPc, runEmits, emitOutput, delivered, stopResult>>
  /\ UNCHANGED <<startReturned, runError, errorSent, currentProject>>
  /\ UNCHANGED <<budgetVars, clientVars, queryVars, appVars>>

\* executeToolById resolved: 'tool-finished' is sent if the window is open
ToolResolve(r) ==
  /\ runPc[r] = "executing"
  /\ runPc' = [runPc EXCEPT ![r] = "finished"]
  /\ delivered' = SendGuarded(r, "finished")
  /\ UNCHANGED <<toolSetupRunWindow, windowsCreated, currentTool, runCount, runTool,
                 runEmits, emitOutput, fileCache, stopResult>>
  /\ UNCHANGED <<startReturned, runError, errorSent, currentProject>>
  /\ UNCHANGED <<budgetVars, clientVars, queryVars, appVars>>

\* a rejection that also reports completion
ToolReject_AlsoFinished(r, message) ==
  /\ runPc[r] = "executing"
  /\ runPc' = [runPc EXCEPT ![r] = "errored"]
  /\ delivered' =
       IF WindowOpen
       THEN [delivered EXCEPT ![r] =
               @ \o << [kind |-> "finished", win |-> toolSetupRunWindow],
                       [kind |-> "error", win |-> toolSetupRunWindow] >>]
       ELSE delivered
  /\ runError' = [runError EXCEPT ![r] = message]
  /\ errorSent' =
       IF WindowOpen
       THEN [errorSent EXCEPT ![r] = ErrorPayload(message)]
       ELSE errorSent
  /\ UNCHANGED <<toolSetupRunWindow, windowsCreated, currentTool, runCount, runTool,
                 runEmits, emitOutput, fileCache, stopResult, startReturned,
                 currentProject>>
  /\ UNCHANGED <<budgetVars, clientVars, queryVars, appVars>>

\* executeToolById rejected with an error carrying `message`: catch ->
\* 'tool-error' is sent if the window is open
ToolReject(r, message) ==
  /\ runPc[r] = "executing"
  /\ runPc' = [runPc EXCEPT ![r] = "errored"]
  /\ delivered' = SendGuarded(r, "error")
  /\ runError' = [runError EXCEPT ![r] = message]
  /\ errorSent' =
       IF WindowOpen
       THEN [errorSent EXCEPT ![r] = ErrorPayload(message)]
       ELSE errorSent
  /\ UNCHANGED <<toolSetupRunWindow, windowsCreated, currentTool, runCount, runTool,
                 runEmits, emitOutput, fileCache, stopResult, startReturned,
                 currentProject>>
  /\ UNCHANGED <<budgetVars, clientVars, queryVars, appVars>>

\* the renderer calls electronAPI.stopTool(runId) for a run id it was given
StopTool(r) ==
  /\ WindowOpen
  /\ r <= runCount
  /\ stopResult' = <<r, invoke("stop-tool")>>
  /\ stopResult' # stopResult
  /\ UNCHANGED <<toolSetupRunWindow, windowsCreated, currentTool, runCount, runTool,
                 runPc, runEmits, emitOutput, delivered, fileCache>>
  /\ UNCHANGED <<startReturned, runError, errorSent, currentProject>>
  /\ UNCHANGED <<budgetVars, clientVars, queryVars, appVars>>

\* the projects of the projects directory
Projects == {"P1", "P2"}

\* ---- paths (state.js, 'save-file', 'select-file', 'select-directory') ----

\* the names a path segment can have, each a string of characters: "w" is the
\* name of the projects directory, "wx" a name that begins with it
SegmentNames == { <<"w">>, <<"w", "x">>, <<"x">> }

\* absolute, normalised paths below the home directory, as lists of segments
PathsOfDepth(n) == [1..n -> SegmentNames]
Paths == UNION { PathsOfDepth(n) : n \in 1..MaxDepth }

\* this.PROJECTS_DIR = path.join(os.homedir(), 'writing_with_storygrinder')
PROJECTS_DIR == << <<"w">> >>

\* the string of a path: every segment behind a separator
RECURSIVE PathString(_)
PathString(path) ==
  IF path = <<>> THEN <<>>
  ELSE <<"/">> \o Head(path) \o PathString(Tail(path))

\* String.prototype.startsWith
startsWith(str, prefix) ==
  /\ Len(prefix) <= Len(str)
  /\ SubSeq(str, 1, Len(prefix)) = prefix

\* the path is the directory or lies below it
InsideDir(path, dir) ==
  /\ Len(dir) <= Len(path)
  /\ SubSeq(path, 1, Len(dir)) = dir

\* AppState.isPathValid(filePath)
isPathValid(filePath) == startsWith(PathString(filePath), PathString(PROJECTS_DIR))

\* path.join(appState.PROJECTS_DIR, projectName)
ProjectPath(projectName) == PROJECTS_DIR \o << <<projectName>> >>

\* ---- persisted settings (state.js, electron-store) ----

\* AppState.LANGUAGE as constructed, and the languages of the settings dialog
DefaultLanguage == "en-US"
Languages == {"en-US", "es-ES"}
Models == {"model-a"}

\* a 'settings' object without keys: store.get('settings', {})
NoSettings == [current_project |-> Null, ai_provider |-> Null, language |-> Null]

\* the store without keys: a new store, or one after store.clear()
EmptyStore ==
  [settings |-> NoSettings, selectedApiProvider |-> Null, selectedAiModel |-> Null]

\* this.CURRENT_PROJECT as JSON
StoredProject == IF currentProject = "none" THEN Null ELSE currentProject

\* AppState.saveSettings(): store.set('settings', {...}) with the given fields
savedSettings(prov, lang) ==
  [current_project |-> StoredProject, ai_provider |-> prov, language |-> lang]

\* the object 'open-project' and 'create-project' pass to store.set('settings', ...)
\* (default_save_dir and current_project_path follow from current_project)
projectSettings(projectName) ==
  [current_project |-> projectName, ai_provider |-> Null, language |-> Null]

\* the main process after startup with both essential paths present, an empty
\* store and no file dialog used
AppReady ==
  /\ appPc = "ready"
  /\ envExists = TRUE
  /\ writingDirExists = TRUE
  /\ storeOpen = TRUE
  /\ store = EmptyStore
  /\ aiProvider = Null
  /\ language = DefaultLanguage
  /\ lastWritten = <<>>
  /\ selected = <<>>

\* what `await AiApiServiceInstance.clearFilesAndCaches()` leaves in the client:
\* the Claude client drops its manuscript, the OpenAI Responses client clears
\* nothing, and the Completions client has no such method (the TypeError is
\* caught and shown in an error box)
ClearedContext == IF provider = "claude" THEN Null ELSE context

\* the state changes of a successful project handler: API cleanup, then
\* appState.CURRENT_PROJECT and store.set('settings', ...); the file cache is
\* not touched
SelectProject(projectName) ==
  /\ context' = ClearedContext
  /\ currentProject' = projectName
  /\ UNCHANGED <<toolSetupRunWindow, windowsCreated, currentTool, runCount, runTool,
                 runPc, runEmits, emitOutput, delivered, fileCache, stopResult,
                 startReturned, runError, errorSent>>
  /\ store' = IF storeOpen
              THEN [store EXCEPT !.settings = projectSettings(projectName)]
              ELSE store
  /\ UNCHANGED <<appPc, envExists, writingDirExists, storeOpen, aiProvider, language,
                 lastWritten, selected>>
  /\ UNCHANGED <<provider, envKey, apiKeyMissing, client, prepareResult, callVars>>
  /\ UNCHANGED <<budgetVars, queryVars>>

\* ipcMain.handle('open-project'); `exists` is fs.existsSync(projectPath)
OpenProject(projectName, exists) ==
  IF ~exists
  THEN UNCHANGED vars    \* { success: false }
  ELSE SelectProject(projectName)

\* ipcMain.handle('create-project'); `exists` is fs.existsSync(projectPath)
CreateProject(projectName, exists) ==
  IF exists
  THEN UNCHANGED vars    \* { success: false }
  ELSE SelectProject(projectName)

\* ipcMain.handle('get-tool-output-files'): fileCache.getFiles(toolName)
getToolOutputFiles(toolName) == fileCache[toolName]

\* ---- startup and settings (main.js, state.js) ----

\* a new process: the AppState constructor has run, initializeApp has not
NewProcess ==
  /\ appPc' = "launch"
  /\ storeOpen' = FALSE
  /\ aiProvider' = Null
  /\ language' = DefaultLanguage
  /\ currentProject' = "none"
  /\ lastWritten' = <<>>
  /\ selected' = <<>>

\* ensureEssentialPathsExist(); `env` and `dir` are what fs.existsSync gave for
\* ~/.env and the projects directory; both are created when missing
EnsureEssentialPathsExist(env, dir) ==
  /\ appPc = "launch"
  /\ appPc' = "paths"
  /\ envExists' = env
  /\ writingDirExists' = dir
  /\ store' = IF (~env \/ ~dir) /\ storeOpen THEN EmptyStore ELSE store
  /\ UNCHANGED <<storeOpen, aiProvider, language, lastWritten, selected>>
  /\ UNCHANGED <<budgetVars, runVars, clientVars, queryVars>>

\* appState.initialize(): the store is opened and loadSettings() applied;
\* `dirExists` is directoryExists(savedPath), false when the projects
\* directory had to be created
Initialize(dirExists) ==
  /\ appPc = "paths"
  /\ dirExists => writingDirExists
  /\ appPc' = "ready"
  /\ storeOpen' = TRUE
  /\ LET settings == store.settings
     IN  /\ IF settings.current_project # Null
            THEN IF isPathValid(ProjectPath(settings.current_project)) /\ dirExists
                 THEN /\ currentProject' = settings.current_project
                      /\ UNCHANGED store
                 ELSE /\ store' = [store EXCEPT !.settings = NoSettings]
                      /\ currentProject' = "none"
            ELSE UNCHANGED <<store, currentProject>>
         /\ aiProvider' = IF settings.ai_provider # Null
                          THEN settings.ai_provider ELSE aiProvider
         /\ language' = IF settings.language # Null
                        THEN settings.language ELSE language
  /\ UNCHANGED <<envExists, writingDirExists, lastWritten, selected>>
  /\ UNCHANGED <<toolSetupRunWindow, windowsCreated, currentTool, runCount, runTool,
                 runPc, runEmits, emitOutput, delivered, fileCache, stopResult,
                 startReturned, runError, errorSent>>
  /\ UNCHANGED <<budgetVars, clientVars, queryVars>>

\* what the settings dialog can send
SettingsInputs ==
  [aiProvider : Providers \cup {Null}, aiModel : Models \cup {Null},
   language : Languages \cup {Null}, shouldQuit : BOOLEAN]

\* ipcMain.handle('save-settings'): setAiProvider and setLanguage each end in
\* saveSettings(); app.quit() ends the process
SaveSettings(settings) ==
  /\ appPc = "ready"
  /\ LET prov == IF settings.aiProvider # Null THEN settings.aiProvider ELSE aiProvider
         lang == IF settings.language # Null THEN settings.language ELSE language
     IN  /\ store' =
              [settings |->
                 IF settings.aiProvider # Null \/ settings.language # Null
                 THEN savedSettings(prov, lang) ELSE store.settings,
               selectedApiProvider |->
                 IF settings.aiProvider # Null
                 THEN settings.aiProvider ELSE store.selectedApiProvider,
               selectedAiModel |->
                 IF settings.aiModel # Null
                 THEN settings.aiModel ELSE store.selectedAiModel]
         /\ IF settings.shouldQuit
            THEN NewProcess
            ELSE /\ aiProvider' = prov
                 /\ language' = lang
                 /\ UNCHANGED <<appPc, storeOpen, currentProject, lastWritten, selected>>
  /\ UNCHANGED <<envExists, writingDirExists>>
  /\ UNCHANGED <<toolSetupRunWindow, windowsCreated, currentTool, runCount, runTool,
                 runPc, runEmits, emitOutput, delivered, fileCache, stopResult,
                 startReturned, runError, errorSent>>
  /\ UNCHANGED <<budgetVars, clientVars, queryVars>>

\* ipcMain.on('app-quit'): app.quit(), and the application is started again
Relaunch ==
  /\ appPc = "ready"
  /\ NewProcess
  /\ UNCHANGED <<envExists, writingDirExists, store>>
  /\ UNCHANGED <<toolSetupRunWindow, windowsCreated, currentTool, runCount, runTool,
                 runPc, runEmits, emitOutput, delivered, fileCache, stopResult,
                 startReturned, runError, errorSent>>
  /\ UNCHANGED <<budgetVars, clientVars, queryVars>>

\* ---- file dialogs (main.js) ----

\* a file argument or a dialog result: <<>> (none, canceled) or <<path>>
PathInputs == {<<>>} \cup { <<path>> : path \in Paths }

\* the handlers' test of a chosen path: selectedPath.startsWith(writingPath)
startsWithWritingPath(path) ==
  startsWith(PathString(path), PathString(PROJECTS_DIR))

\* ipcMain.handle('save-file'); `picked` is what dialog.showSaveDialog gave
SaveFile(filePath, saveAs, picked) ==
  /\ appPc = "ready"
  /\ lastWritten' =
       IF filePath = <<>> \/ saveAs
       THEN IF picked = <<>> THEN lastWritten
            ELSE IF ~startsWithWritingPath(picked[1]) THEN lastWritten
            ELSE picked
       ELSE filePath
  /\ UNCHANGED <<appPc, envExists, writingDirExists, storeOpen, store, aiProvider,
                 language, selected>>
  /\ UNCHANGED <<budgetVars, runVars, clientVars, queryVars>>

\* what 'select-file' and 'select-directory' return for a dialog result
selectedPath(picked) ==
  IF picked = <<>> THEN <<>>
  ELSE IF ~startsWithWritingPath(picked[1]) THEN <<>>
  ELSE picked

\* ipcMain.handle('select-file'); `picked` is what dialog.showOpenDialog gave
SelectFile(picked) ==
  /\ appPc = "ready"
  /\ selected' = selectedPath(picked)
  /\ UNCHANGED <<appPc, envExists, writingDirExists, storeOpen, store, aiProvider,
                 language, lastWritten>>
  /\ UNCHANGED <<budgetVars, runVars, clientVars, queryVars>>

\* ipcMain.handle('select-directory')
SelectDirectory(picked) ==
  /\ appPc = "ready"
  /\ selected' = selectedPath(picked)
  /\ UNCHANGED <<appPc, envExists, writingDirExists, storeOpen, store, aiProvider,
                 language, lastWritten>>
  /\ UNCHANGED <<budgetVars, runVars, clientVars, queryVars>>

\* the main process after startup: no tool window, no run, and the provider
\* client as constructed (the Claude client, with its key set)
RunInit ==
  /\ config = DefaultConfig
  /\ promptTokens = <<>>
  /\ budgets = <<>>
  /\ RunIdle
  /\ ClientIdle
  /\ QueryIdle
  /\ AppReady
  /\ provider = "claude"
  /\ envKey

RunNext ==
  \/ \E t \in RegisteredTools : ShowToolSetupDialog(t)
  \/ CloseToolDialog
  \/ WindowClosed
  \/ \E t \in ToolNames : runCount < MaxRuns /\ StartToolRun(t)
  \/ \E r \in RunIds : ToolEmit(r)
  \/ \E r \in RunIds : ToolAddFile(r)
  \/ \E r \in RunIds : ToolResolve(r)
  \/ \E r \in RunIds : ToolReject(r, KeyMissingError)
  \/ \E r \in RunIds : StopTool(r)

\* SpecRun: one run at a time while tool windows are opened, closed and replaced
\* and the renderer calls stopTool; every rejection is the provider client's
\* missing-key error
SpecRun == RunInit /\ [][RunNext]_vars

\* SpecStart: runs of registered and unregistered tools while tool windows are
\* opened, closed and replaced; a rejection carries any of the messages
StartNext ==
  \/ \E t \in RegisteredTools : ShowToolSetupDialog(t)
  \/ CloseToolDialog
  \/ WindowClosed
  \/ \E t \in ToolNames : runCount < MaxRuns /\ StartToolRun(t)
  \/ \E r \in RunIds : ToolEmit(r)
  \/ \E r \in RunIds : ToolResolve(r)
  \/ \E r \in RunIds, message \in RejectMessages : ToolReject(r, message)

SpecStart == RunInit /\ [][StartNext]_vars

\* SpecSession: runs of the registered tool started one after another or
\* overlapping from one tool window that stays open, while projects are opened
\* and created
SessionNext ==
  \/ \E t \in RegisteredTools : windowsCreated = 0 /\ ShowToolSetupDialog(t)
  \/ \E t \in RegisteredTools : StartToolRun(t)
  \/ \E r \in RunIds : ToolEmit(r)
  \/ \E r \in RunIds : ToolAddFile(r)
  \/ \E r \in RunIds : ToolResolve(r)
  \/ \E r \in RunIds : ToolReject(r, NoProjectError)
  \/ \E p \in Projects, exists \in BOOLEAN : OpenProject(p, exists)
  \/ \E p \in Projects, exists \in BOOLEAN : CreateProject(p, exists)

SpecSession == RunInit /\ [][SessionNext]_vars

\* SpecApp: the application is started, settings are saved, projects are
\* opened and created, and the application is quit and started again; the
\* first start finds an empty store
AppInit ==
  /\ config = DefaultConfig
  /\ promptTokens = <<>>
  /\ budgets = <<>>
  /\ RunIdle
  /\ ClientIdle
  /\ provider = "claude"
  /\ envKey
  /\ QueryIdle
  /\ appPc = "launch"
  /\ envExists = TRUE
  /\ writingDirExists = TRUE
  /\ storeOpen = FALSE
  /\ store = EmptyStore
  /\ aiProvider = Null
  /\ language = DefaultLanguage
  /\ lastWritten = <<>>
  /\ selected = <<>>

AppNext ==
  \/ \E env \in BOOLEAN, dir \in BOOLEAN : EnsureEssentialPathsExist(env, dir)
  \/ \E dirExists \in BOOLEAN : Initialize(dirExists)
  \/ \E settings \in SettingsInputs : SaveSettings(settings)
  \/ \E p \in Projects : appPc = "ready" /\ OpenProject(p, TRUE)
  \/ \E p \in Projects : appPc = "ready" /\ CreateProject(p, FALSE)
  \/ Relaunch

SpecApp == AppInit /\ [][AppNext]_vars

\* SpecFiles: the renderer saves files and asks for files and directories in
\* the running application
FilesNext ==
  \/ \E filePath \in PathInputs, saveAs \in BOOLEAN, picked \in PathInputs :
       SaveFile(filePath, saveAs, picked)
  \/ \E picked \in PathInputs : SelectFile(picked)
  \/ \E picked \in PathInputs : SelectDirectory(picked)

SpecFiles == RunInit /\ [][FilesNext]_vars

----------------------------------------------------------------------------
\* Properties of the tool-run handler (checked under SpecRun)

Settled(r) == runPc[r] \in {"finished", "errored"}
Terminal(e) == e.kind \in {"finished", "error"}
TerminalCount(d) == Cardinality({ i \in 1..Len(d) : Terminal(d[i]) })

EventOrder(r) ==
  LET d == delivered[r]
  IN /\ \A i \in 1..Len(d) : d[i].kind = "started" => i = 1
     /\ TerminalCount(d) <= 1
     /\ ~Settled(r) => TerminalCount(d) = 0
     /\ \A i, j \in 1..Len(d) : (Terminal(d[i]) /\ i < j) => d[j].kind = "delta"

C2_StopToolNeverRejects ==
  stopResult # <<>> => stopResult[2] # "rejected"

\* C12 (as claimed): once cancel was signalled for a run that is still executing
\* (the renderer called stopTool with its run id), the run does not go on to
\* finish or fail: it delivers no terminal event and does not settle as finished
\* or errored.
C12_CancelStopsRun ==
  [][ \A r \in RunIds :
        IF stopResult = <<>> THEN TRUE
        ELSE (stopResult[1] = r /\ runPc[r] = "executing") =>
               /\ ~Settled(r)'
               /\ TerminalCount(delivered'[r]) = 0
    ]_vars

----------------------------------------------------------------------------
\* Properties of 'start-tool-run' and its failures (checked under SpecStart)

DeltaCount(d) == Cardinality({ i \in 1..Len(d) : d[i].kind = "delta" })

----------------------------------------------------------------------------
\* Properties of the file cache and of overlapping runs (checked under
\* SpecSession)

\* C16 (as claimed): when the active project changes from one project to
\* another, 'get-tool-output-files' is empty for every tool afterwards.
C16_ProjectSwitchClearsArtifacts ==
  [][ (currentProject # "none" /\ currentProject' # currentProject) =>
        \A t \in ToolNames : getToolOutputFiles(t)' = <<>> ]_vars

\* C18 (as claimed): no step removes a recorded artifact from a tool's list
\* (the application has no explicit clear action): what was listed for a tool
\* is still listed after every step, in particular after a later run starts.
C18_ArtifactsKeptAcrossRuns ==
  [][ \A t \in ToolNames :
        \A i \in 1..Len(fileCache[t]) :
          \E j \in 1..Len(fileCache'[t]) : fileCache'[t][j] = fileCache[t][i] ]_vars

\* C20 (as claimed): with the tool window open throughout, the text events
\* delivered under a run id are exactly the outputs that run's execution
\* emitted: none of them under another run's id.
C20_EventsCarryOwnRunId ==
  \A r \in RunIds : DeltaCount(delivered[r]) = runEmits[r]

----------------------------------------------------------------------------
\* Properties of the file dialogs (checked under SpecFiles) and of startup and
\* settings (checked under SpecApp)

\* C25 (as claimed): every file 'save-file' writes, and every path
\* 'select-file' or 'select-directory' returns, is the projects directory or
\* lies below it as a directory, not only as a prefix of the path string.
C25_FilesInsideProjectsDir ==
  /\ lastWritten # <<>> => InsideDir(lastWritten[1], PROJECTS_DIR)
  /\ selected # <<>> => InsideDir(selected[1], PROJECTS_DIR)

\* C27 (as claimed): when ~/.env or the projects directory is missing at
\* startup, the store is empty when the application loads its settings, and
\* loading applies no stored project, provider, model or language.
C27_MissingPathsResetStore ==
  [][ (appPc = "paths" /\ appPc' = "ready" /\ (~envExists \/ ~writingDirExists)) =>
        /\ store = EmptyStore
        /\ store' = EmptyStore
        /\ currentProject' = "none"
        /\ aiProvider' = Null
        /\ language' = DefaultLanguage
    ]_vars

\* C30 (as claimed): a step of the running application that selects a project
\* leaves the provider and the language of the persisted settings as they
\* were.
C30_ProjectSwitchKeepsSettings ==
  [][ (appPc = "ready" /\ appPc' = "ready" /\ currentProject' # currentProject) =>
        /\ store'.settings.ai_provider = store.settings.ai_provider
        /\ store'.settings.language = store.settings.language
    ]_vars

----------------------------------------------------------------------------
\* SpecClient: one client instance and the calls made on it

ClientInit ==
  /\ config = DefaultConfig
  /\ promptTokens = <<>>
  /\ budgets = <<>>
  /\ RunIdle
  /\ ClientIdle
  /\ QueryIdle
  /\ AppReady

ClientNext ==
  \/ \E read \in FileContents \cup {ReadError} : PrepareFileAndCache(read)
  \/ ClearFilesAndCaches
  \/ Close
  \/ Recreate
  \/ \E args \in CallArgs : StreamCall(args)
  \/ \E n \in StreamTokenCounts : CountTokensDone(n)
  \/ StreamOpened
  \/ StreamOpenFailed
  \/ \E ev \in ClaudeEvents \cup OpenAiEvents : WireEvent(ev)
  \/ StreamEnd
  \/ StreamError
  \/ Return
  \/ \E p \in Projects : OpenProject(p, TRUE)

SpecClient == ClientInit /\ [][ClientNext]_vars

\* SpecLifecycle: one client instance over its life: contexts are loaded and
\* cleared, the client is closed and recreated, the key may appear in the
\* environment, the query methods and streamWithThinking are called; the
\* events of an opened stream are not followed
LifecycleNext ==
  \/ \E read \in FileContents \cup {ReadError} : PrepareFileAndCache(read)
  \/ \E op \in ReleaseOps : Release(op)
  \/ Recreate
  \/ SetEnvKey
  \/ \E found \in BOOLEAN : VerifyAiAPI(found)
  \/ \E listed \in ModelLists : GetAvailableModels(listed)
  \/ \E o \in CountOutcomes : CountTokens(o)
  \/ \E args \in CallArgs : StreamCall(args)
  \/ \E n \in StreamTokenCounts : CountTokensDone(n)
  \/ StreamOpened
  \/ StreamOpenFailed
  \/ StreamEnd
  \/ StreamError
  \/ Return

SpecLifecycle == ClientInit /\ [][LifecycleNext]_vars

----------------------------------------------------------------------------
\* Properties of the provider clients (checked under SpecClient)

\* C3 (as claimed): in every provider client a streamWithThinking call fails
\* with the not-configured error when the API key is missing, and with the
\* context-not-prepared error when no prepared context is stored, before a
\* request is sent and before anything is passed to the callback.
C3_StreamPreconditions ==
  [][ (sPc = "idle" /\ sPc' # "idle") =>
        /\ apiKeyMissing => (sPc' = "failed" /\ sError' = KeyMissingError)
        /\ (~apiKeyMissing /\ client /\ ~Truthy(context)) =>
             /\ sPc' = "failed"
             /\ sError' = ContextNotPreparedError
             /\ request' = <<>>
             /\ loop'.out = <<>>
    ]_vars

\* C4 (as claimed): the limits sent in the request are the ones
\* calculateTokenBudgets computed for the prompt, so prompt + max output fits the
\* context window and the reasoning budget is below the max output.
C4_RequestUsesBudgets ==
  (provider = "claude" /\ request # <<>>) =>
    /\ request[1].max_tokens = budgets[1].maxTokens
    /\ request[1].budget_tokens = budgets[1].thinkingBudget
    /\ promptTokens[1] + request[1].max_tokens <= config.context_window
    /\ request[1].budget_tokens < request[1].max_tokens

ThinkingTexts == ThinkingDeltas \cup {Redacted}

\* C10: the text of a thinking delta reaches the callback only if the caller
\* passed options.includeThinking; without it the texts passed to the callback
\* are those of the twin stream, whatever the thinking deltas contained.
C10_ThinkingOnlyOnOptIn ==
  ~sArgs.includeThinking =>
    /\ loop.out = loopTwin.out
    /\ \A i \in 1..Len(loop.out) : loop.out[i] \notin ThinkingTexts

\* a finished stream without the option, whose wire carried a thinking delta
\* (content different from the twin's) and then a text delta that was forwarded
C10_Witness ==
  /\ provider = "claude"
  /\ sPc = "done"
  /\ ~sArgs.includeThinking
  /\ Len(wire) = 2
  /\ wire[1].kind = "thinking_delta" /\ wire[1].text # Redacted
  /\ wire[2].kind = "text_delta"
  /\ loop.out[Len(loop.out)] = wire[2].text

\* the wire events whose text the loop forwards whatever the options are
IsTextDelta(ev) ==
  \/ ev.type = "content_block_delta" /\ ev.kind = "text_delta"
  \/ ev.type = "response.output_text.delta"

\* the texts of the forwarded wire deltas, in wire order
WireTexts(w) ==
  LET d == SelectSeq(w, IsTextDelta)
  IN  [i \in 1..Len(d) |-> d[i].text]

\* the text deltas among the texts passed to the callback
IsDeltaText(x) == x \in TextDeltas
CallbackTexts(out) == SelectSeq(out, IsDeltaText)

\* C11: in a streaming client (Claude, OpenAI Responses) every wire event is
\* handled, callback included, in the step that reads it, so at every moment the
\* text deltas passed to the callback are exactly the text deltas read from the
\* wire so far, in wire order: none reordered, merged, duplicated or dropped.
C11_DeltasInWireOrder ==
  (provider \in {"claude", "openai"}) => CallbackTexts(loop.out) = WireTexts(wire)

\* two different text deltas were read, the later-numbered one first, and the
\* callback got them in that order
C11_Witness ==
  /\ provider \in {"claude", "openai"}
  /\ Len(wire) = 2
  /\ IsTextDelta(wire[1]) /\ IsTextDelta(wire[2])
  /\ wire[1].text = "t2" /\ wire[2].text = "t1"
  /\ CallbackTexts(loop.out) = <<"t2", "t1">>

\* C15 (as claimed): a streamWithThinking call throws only before a request
\* was sent; once the request is sent, no failure of the request or of the
\* stream is thrown to the caller.
C15_ThrowsOnlyBeforeStream ==
  sPc = "failed" => (request = <<>> /\ wire = <<>>)

\* C17 (as claimed): when the active project changes, the provider client holds
\* no prepared context afterwards, whichever implementation it is.
C17_ProjectSwitchClearsContext ==
  [][ currentProject' # currentProject => ~Truthy(context') ]_vars

\* the calls that have built their prompt and not yet returned
InFlight == fullPrompt # <<>>

C21_KeyMissingErrorOnlyWithoutKey ==
  sError = KeyMissingError => (~envKey \/ apiKeyMissing)

----------------------------------------------------------------------------
\* Properties of the client's life (checked under SpecLifecycle)

\* C22: after every prepareFileAndCache the context is exactly the text just
\* read when the call returned no errors, and unset when it returned errors;
\* whatever was loaded before does not survive, and the call does not throw
\* (no call position or error of the client changes).
C22_PrepareReplacesContext ==
  [][ \A read \in FileContents \cup {ReadError} :
        PrepareFileAndCache(read) =>
          /\ \/ prepareResult' = "ok" /\ read # ReadError /\ context' = read
             \/ prepareResult' = "errors" /\ context' = Null
          /\ UNCHANGED callVars
    ]_vars

\* a failed load has replaced manuscript M1, which a call still in flight had
\* taken from the client
C22_Witness ==
  /\ prepareResult = "errors"
  /\ context = Null
  /\ fullPrompt # <<>>
  /\ fullPrompt[1].manuscript = "M1"

\* C23 (as claimed): after clearFilesAndCaches or close the context is unset,
\* and a call on a client that is already released changes nothing and does
\* not throw.
C23_ReleaseIdempotent ==
  [][ \A op \in ReleaseOps :
        Release(op) =>
          /\ context' = Null
          /\ (context = Null /\ (op = "close" => ~client)) =>
               UNCHANGED <<budgetVars, runVars, clientVars, appVars>>
    ]_vars

\* C24: countTokens returns -1 when the client or its key is missing and when
\* the provider or the encoder fails, and the count, which is not negative,
\* otherwise; it throws in no case (the call changes nothing in the client).
C24_CountTokensMinusOneOnFailure ==
  [][ \A o \in CountOutcomes :
        CountTokens(o) =>
          /\ IF ~client \/ apiKeyMissing \/ ~o.ok
             THEN queryResult'[1].tokens = -1
             ELSE queryResult'[1].tokens = o.input_tokens /\ queryResult'[1].tokens >= 0
          /\ UNCHANGED clientVars
    ]_vars

\* the count of a closed Claude client whose key is present failed
C24_Witness ==
  /\ queryResult = << [op |-> "countTokens", tokens |-> -1] >>
  /\ provider = "claude"
  /\ ~client
  /\ ~apiKeyMissing

\* C26: a client that found no key keeps apiKeyMissing through every
\* prepareFileAndCache, clear, close and recreate, also after the key has
\* appeared in the environment: every streamWithThinking call made on it
\* fails with the missing-key error, verifyAiAPI returns false and
\* getAvailableModels returns the empty list.
C26_KeyMissingStays ==
  [][ apiKeyMissing =>
        /\ apiKeyMissing'
        /\ (sPc = "idle" /\ sPc' # "idle") =>
             (sPc' = "failed" /\ sError' = KeyMissingError)
        /\ (queryResult' # queryResult /\ queryResult'[1].op = "verifyAiAPI") =>
             queryResult'[1].value = FALSE
        /\ (queryResult' # queryResult /\ queryResult'[1].op = "getAvailableModels") =>
             queryResult'[1].models = <<>>
    ]_vars

\* a client constructed without a key was recreated after the key appeared,
\* and a call made on it failed with the missing-key error
C26_Witness ==
  /\ apiKeyMissing
  /\ envKey
  /\ client
  /\ sPc = "failed"
  /\ sError = KeyMissingError

\* C28 (as claimed): a call made on a client that has its key, while the
\* context of a prepareFileAndCache that returned no errors is in place, does
\* not fail with the missing-context error.
C28_LoadedContextAccepted ==
  [][ ( /\ sPc = "idle" /\ sPc' # "idle"
        /\ prepareResult = "ok" /\ context # Null
        /\ client /\ ~apiKeyMissing ) =>
        sError' # ContextNotPreparedError
    ]_vars

\* C29 (as claimed): the budgets of a call are computed from a prompt token
\* count that is not negative, and the available tokens do not exceed the
\* context window.
C29_BudgetFromNonNegativeCount ==
  budgets # <<>> =>
    /\ budgets[1].promptTokens >= 0
    /\ budgets[1].availableTokens <= budgets[1].contextWindow

----------------------------------------------------------------------------
\* SpecBudget: the calculation applied to every sampled input

BudgetInit ==
  /\ config \in Configs
  /\ promptTokens \in { <<p>> : p \in PromptTokenValues }
  /\ budgets = <<>>
  /\ RunIdle
  /\ ClientIdle
  /\ QueryIdle
  /\ AppReady

Compute ==
  /\ budgets = <<>>
  /\ budgets' = << calculateTokenBudgets(promptTokens[1], config) >>
  /\ UNCHANGED <<config, promptTokens>>
  /\ UNCHANGED <<runVars, clientVars, queryVars, appVars>>

BudgetNext == Compute

SpecBudget == BudgetInit /\ [][BudgetNext]_vars

----------------------------------------------------------------------------
\* Properties of calculateTokenBudgets (checked under SpecBudget)

Computed == budgets # <<>>
B == budgets[1]

\* C5: for 0 <= prompt_tokens <= context_window the returned max_output_tokens
\* is >= 0 and the reasoning budget is strictly less than max_output_tokens.
C5_BudgetHeadroom ==
  (Computed /\ promptTokens[1] >= 0 /\ promptTokens[1] <= config.context_window)
    => (B.maxTokens >= 0 /\ B.thinkingBudget < B.maxTokens)

\* a prompt that fits, and whose thinking budget was capped at the ceiling
C5_Witness ==
  /\ Computed
  /\ promptTokens[1] >= 0 /\ promptTokens[1] <= config.context_window
  /\ B.capThinkingBudget
  /\ B.thinkingBudget = config.max_thinking_budget

\* C6 (as claimed): for prompt_tokens > context_window, available_tokens is
\* clamped to 0 and the prompt is flagged oversized.
C6_OversizedClamped ==
  (Computed /\ promptTokens[1] > config.context_window)
    => (B.availableTokens = 0 /\ B.isPromptTooLarge)

\* C7: max_output_tokens <= min(available_tokens, hard output limit), for every
\* token count countTokens can return and every configuration.
C7_MaxOutputBound ==
  Computed => B.maxTokens <= Min(B.availableTokens, config.betas_max_tokens)

\* the hard limit exceeds the context window and the count failed (-1), so the
\* `maxTokens > contextWindow` branch was taken
C7_Witness ==
  /\ Computed
  /\ config.betas_max_tokens > config.context_window
  /\ promptTokens[1] = -1
  /\ B.maxTokens = B.availableTokens
  /\ B.maxTokens > config.context_window

\* C8 (as claimed): reasoning budget = max_output - desired, capped at the
\* ceiling; the oversized flag compares the UNCAPPED value with the configured
\* preferred budget.
C8_OversizedFromUncapped ==
  Computed =>
    /\ B.thinkingBudget =
         Min(B.maxTokens - config.desired_output_tokens, config.max_thinking_budget)
    /\ B.isPromptTooLarge <=>
         (B.maxTokens - config.desired_output_tokens < config.thinking_budget_tokens)

\* C9 (as claimed): the reasoning budget is never negative; it is 0 whenever the
\* desired visible output exceeds max_output.
C9_ReasoningClampedAtZero ==
  Computed =>
    /\ B.thinkingBudget >= 0
    /\ (config.desired_output_tokens > B.maxTokens) => B.thinkingBudget = 0

====
